---- MODULE Spec2Model ----
(***************************************************************************)
(* Model of the Menu component (frontend/src/components/Menu.jsx): the     *)
(* catalog loader run by the mount effect, the grouping of the fetched     *)
(* products into the category index, the tab/query state and the cards'    *)
(* add-to-cart and open-detail interactions.                               *)
(*                                                                         *)
(* JavaScript strings are sequences of one-character strings, so that      *)
(* toLowerCase, replace(/ /g, ''), concatenation and includes are computed *)
(* rather than assumed.  undefined and null are the one-element tuples     *)
(* Undefined and Null, which no character sequence equals.                 *)
(***************************************************************************)
EXTENDS Integers, Sequences, FiniteSets

\* ------------------------------------------------------------------ bounds

\* Longest product list a response body carries.
MaxProducts == 2
\* Most user interactions with the cards (add-to-cart and open-detail clicks).
MaxClicks == 2

\* ----------------------------------------------------- JavaScript values

Undefined == <<"undefined">>
Null == <<"null">>

\* ToBoolean of a string-or-absent value: undefined, null and '' are falsy.
Truthy(v) == v # Undefined /\ v # Null /\ v # <<>>

\* ToString of a string-or-absent value, as string concatenation applies it.
StringOf(v) ==
  IF v = Undefined THEN <<"u", "n", "d", "e", "f", "i", "n", "e", "d">>
  ELSE IF v = Null THEN <<"n", "u", "l", "l">>
  ELSE v

UpperCase ==
  [A |-> "a", B |-> "b", C |-> "c", D |-> "d", E |-> "e", F |-> "f", G |-> "g",
   H |-> "h", I |-> "i", J |-> "j", K |-> "k", L |-> "l", M |-> "m", N |-> "n",
   O |-> "o", P |-> "p", Q |-> "q", R |-> "r", S |-> "s", T |-> "t", U |-> "u",
   V |-> "v", W |-> "w", X |-> "x", Y |-> "y", Z |-> "z"]

\* String.prototype.toLowerCase
toLowerCase(s) ==
  [i \in 1..Len(s) |-> IF s[i] \in DOMAIN UpperCase THEN UpperCase[s[i]] ELSE s[i]]

\* String.prototype.replace(/ /g, '')
RECURSIVE stripSpaces(_)
stripSpaces(s) ==
  IF s = <<>> THEN <<>>
  ELSE IF Head(s) = " " THEN stripSpaces(Tail(s))
  ELSE <<Head(s)>> \o stripSpaces(Tail(s))

\* String.prototype.includes
includes(s, needle) ==
  \E i \in 0..(Len(s) - Len(needle)) : SubSeq(s, i + 1, i + Len(needle)) = needle

Digits == <<"0", "1", "2", "3", "4", "5", "6", "7", "8", "9">>

DigitValue(c) == CHOOSE d \in 0..9 : Digits[d + 1] = c

\* Number.prototype.toString of a non-negative integer.
RECURSIVE NumberToString(_)
NumberToString(n) ==
  IF n < 10 THEN <<Digits[n + 1]>>
  ELSE NumberToString(n \div 10) \o <<Digits[(n % 10) + 1]>>

\* A property key that is an array index ("0", "7", "12"; not "07"): Object.keys
\* lists such keys first, in ascending numeric order.  Keys of up to nine digits
\* are decided here; all are below the largest array index, 2^32 - 2.
IsArrayIndex(k) ==
  /\ Len(k) >= 1
  /\ Len(k) <= 9
  /\ \A i \in 1..Len(k) : \E d \in 1..10 : Digits[d] = k[i]
  /\ (Len(k) = 1 \/ k[1] # "0")

RECURSIVE ArrayIndexValue(_)
ArrayIndexValue(k) ==
  IF k = <<>> THEN 0
  ELSE 10 * ArrayIndexValue(SubSeq(k, 1, Len(k) - 1)) + DigitValue(k[Len(k)])

\* ------------------------------------------------------------- constants

PLACEHOLDER_IMAGE ==
  <<"/", "p", "l", "a", "c", "e", "h", "o", "l", "d", "e", "r", ".", "p", "n", "g">>

\* useState('entradas') and the fallback of the initial-tab selection.
Entradas == <<"e", "n", "t", "r", "a", "d", "a", "s">>

\* The category key of a product without category.
Outros == <<"o", "u", "t", "r", "o", "s">>

HttpErrorPrefix ==
  <<"H", "T", "T", "P", " ", "e", "r", "r", "o", "r", "!", " ",
    "s", "t", "a", "t", "u", "s", ":", " ">>

\* The messages of the errors the runtime raises (their wording is the engine's;
\* what the component relies on is that each is a non-empty string).
FailedToFetch ==
  <<"F", "a", "i", "l", "e", "d", " ", "t", "o", " ", "f", "e", "t", "c", "h">>
UnexpectedToken ==
  <<"U", "n", "e", "x", "p", "e", "c", "t", "e", "d", " ", "t", "o", "k", "e", "n">>
NotAFunction ==
  <<"i", "s", " ", "n", "o", "t", " ", "a", " ", "f", "u", "n", "c", "t", "i", "o", "n">>
CannotReadProperties ==
  <<"C", "a", "n", "n", "o", "t", " ", "r", "e", "a", "d", " ",
    "p", "r", "o", "p", "e", "r", "t", "i", "e", "s">>

Constructor == <<"c", "o", "n", "s", "t", "r", "u", "c", "t", "o", "r">>

\* Property names every plain object inherits from Object.prototype (two of them).
ObjectPrototypeKeys == {Constructor, <<"t", "o", "S", "t", "r", "i", "n", "g">>}

\* --------------------------------------------------------- plain objects
\* A plain object ({} and what the reducer adds to it) is the sequence of its own
\* properties [key, value] in creation order; a value is an array of items.

OwnKeys(obj) == [i \in 1..Len(obj) |-> obj[i].key]

HasOwn(obj, k) == \E i \in 1..Len(obj) : obj[i].key = k

OwnValue(obj, k) == obj[CHOOSE i \in 1..Len(obj) : obj[i].key = k].value

\* obj[k]: the own property, else the one inherited from Object.prototype (a
\* function, truthy and no array), else undefined.
Get(obj, k) ==
  IF HasOwn(obj, k) THEN [kind |-> "array", items |-> OwnValue(obj, k)]
  ELSE IF k \in ObjectPrototypeKeys THEN [kind |-> "inherited", items |-> <<>>]
  ELSE [kind |-> "undefined", items |-> <<>>]

\* obj[k] = [] for a k that is no own property yet.
Define(obj, k) == Append(obj, [key |-> k, value |-> <<>>])

\* obj[k].push(item) for an own array property k.
Push(obj, k, item) ==
  [i \in 1..Len(obj) |->
     IF obj[i].key = k THEN [key |-> k, value |-> Append(obj[i].value, item)]
     ELSE obj[i]]

RECURSIVE SortedIndexKeys(_)
SortedIndexKeys(S) ==
  IF S = {} THEN <<>>
  ELSE LET m == CHOOSE k \in S : \A o \in S : ArrayIndexValue(k) <= ArrayIndexValue(o)
       IN <<m>> \o SortedIndexKeys(S \ {m})

\* Object.keys(obj): the array-index keys in ascending numeric order, then the
\* other string keys in creation order.
ObjectKeys(obj) ==
  LET own == OwnKeys(obj)
  IN SortedIndexKeys({own[i] : i \in {j \in 1..Len(own) : IsArrayIndex(own[j])}})
       \o SelectSeq(own, LAMBDA k : ~IsArrayIndex(k))

\* ------------------------------------------------------------- grouping

\* price.toFixed(2) of a price held in centavos.
toFixed2(cents) ==
  NumberToString(cents \div 100) \o <<".">>
    \o <<Digits[((cents % 100) \div 10) + 1], Digits[(cents % 10) + 1]>>

\* String.prototype.replace('.', ','): the first '.' only.
RECURSIVE replaceDot(_)
replaceDot(s) ==
  IF s = <<>> THEN <<>>
  ELSE IF Head(s) = "." THEN <<",">> \o Tail(s)
  ELSE <<Head(s)>> \o replaceDot(Tail(s))

categoryKey(product) ==
  IF Truthy(product.category) THEN stripSpaces(toLowerCase(product.category))
  ELSE Outros

formattedItem(product) ==
  [id |-> product.id,
   title |-> product.name,
   desc |-> product.description,
   price |-> <<"R", "$", " ">> \o replaceDot(toFixed2(product.price.cents)),
   img |-> IF Truthy(product.imageUrl) THEN product.imageUrl ELSE PLACEHOLDER_IMAGE,
   available |-> product.available,
   category |-> product.category]

Threw(message) == [threw |-> TRUE, message |-> message, value |-> <<>>]
Returned(value) == [threw |-> FALSE, message |-> <<>>, value |-> value]

\* One call of the reducer: the accumulator after the product, or the TypeError
\* raised by price.toFixed (no price) or by acc[categoryKey].push (an inherited,
\* non-array acc[categoryKey]).
reducer(acc, product) ==
  LET key == categoryKey(product)
      acc1 == IF Get(acc, key).kind = "undefined" THEN Define(acc, key) ELSE acc
  IN IF product.price.type # "number" THEN Threw(CannotReadProperties)
     ELSE IF Get(acc1, key).kind # "array" THEN Threw(NotAFunction)
     ELSE Returned(Push(acc1, key, formattedItem(product)))

\* data.reduce(reducer, {}) from element i on.
RECURSIVE reduceFrom(_, _, _)
reduceFrom(data, i, acc) ==
  IF i > Len(data) THEN Returned(acc)
  ELSE LET r == reducer(acc, data[i])
       IN IF r.threw THEN r ELSE reduceFrom(data, i + 1, r.value)

\* organizedMenu of a parsed body: a body that is no array has no reduce.
organizedMenu(data) ==
  IF data.kind # "array" THEN Threw(NotAFunction)
  ELSE reduceFrom(data.items, 1, <<>>)

\* The tab the loader selects for an index and the URL's 'tab' parameter.
initialTab(menu, requestedTab) ==
  LET keys == ObjectKeys(menu)
      firstCategory == IF keys = <<>> THEN Undefined ELSE keys[1]
  IN IF Truthy(firstCategory)
     THEN IF Truthy(requestedTab) /\ Get(menu, requestedTab).kind # "undefined"
          THEN requestedTab
          ELSE firstCategory
     ELSE Entradas

\* --------------------------------------------------------------- inputs

\* A price: a number, held in centavos, or no price at all.
Price(cents) == [type |-> "number", cents |-> cents]
NoPrice == [type |-> "undefined", cents |-> 0]

Product(id, name, description, price, category, available) ==
  [id |-> id, name |-> name, description |-> description, price |-> price,
   imageUrl |-> Undefined, category |-> category, available |-> available]

\* The product records a response body is made of.
ProductAPI ==
  { Product(<<"1">>, <<"P", "a">>, <<"b", "o">>, Price(1250), <<"P", "r">>, TRUE),
    Product(<<"2">>, <<"S", "u">>, Undefined, Price(500), <<"p", " ", "R">>, FALSE),
    Product(Undefined, <<"A", "b">>, <<"p", "a">>, Price(900), Undefined, TRUE),
    Product(<<>>, <<"B", "l">>, <<"s", "u">>, Price(5), <<" ">>, TRUE),
    Product(<<"5">>, <<"C", "t">>, <<"c", "t">>, Price(100), Constructor, TRUE),
    Product(<<"6">>, <<"S", "e">>, <<"s", "e">>, Price(700), <<"7">>, FALSE),
    Product(<<"7">>, <<"N", "p">>, <<"n", "p">>, NoPrice, <<"P", "r">>, TRUE) }

RECURSIVE ListsUpTo(_)
ListsUpTo(n) ==
  IF n = 0 THEN {<<>>}
  ELSE LET shorter == ListsUpTo(n - 1)
       IN shorter \cup {Append(l, p) : l \in {x \in shorter : Len(x) = n - 1}, p \in ProductAPI}

\* What response.json() resolves to: an array of products, or a JSON value that
\* is no array.
Bodies ==
  {[kind |-> "array", items |-> l] : l \in ListsUpTo(MaxProducts)}
    \cup {[kind |-> "object", items |-> <<>>]}

\* response.status, and response.ok for it.
Statuses == {200, 404, 500}
IsOk(status) == status >= 200 /\ status <= 299

\* new URLSearchParams(window.location.search).get('tab'): null without the
\* parameter.
RequestedTabs == {Null, <<"p", "r">>, Constructor, <<"z">>}

\* What the user types into the search field.
Queries == {<<>>, <<"P", "A">>, <<"a", " ", "b">>, <<"u", "n">>}

\* ---------------------------------------------------------------- state

VARIABLES
  pc,            \* fetchProducts: "mount", "awaitFetch", "awaitJson", "done"
  requestedTab,  \* the 'tab' parameter of the page URL
  fetchCount,    \* calls of fetch
  response,      \* the fetch's outcome
  body,          \* response.json()'s outcome: "pending", "malformed", "parsed"
  products, loading, error, menuData, tab, query,   \* the component's useState
  cart,          \* the arguments of the addItem calls, in order
  toastError,    \* calls of toast.error
  toastSuccess,  \* calls of toast.success
  modal,         \* the argument of the last openModal call, if any
  clicks         \* card interactions so far

loader == <<pc, requestedTab, fetchCount, response, body>>
state == <<products, loading, error, menuData, tab, query>>
collaborators == <<cart, toastError, toastSuccess, modal, clicks>>
vars == <<loader, state, collaborators>>

\* -------------------------------------------------------------- render

\* menuData[tab] || []
currentCategoryItems ==
  LET v == Get(menuData, tab) IN IF v.kind = "array" THEN v.items ELSE <<>>

\* A filter that lowercases the item's text but not the query.
matchesCaseSensitive(it, q) ==
  includes(toLowerCase(StringOf(it.title) \o <<" ">> \o StringOf(it.desc)), q)

\* The filter's predicate for an item and the query.
matches(it, q) ==
  includes(toLowerCase(StringOf(it.title) \o <<" ">> \o StringOf(it.desc)), toLowerCase(q))

filteredItems == SelectSeq(currentCategoryItems, LAMBDA it : matches(it, query))

\* A render that throws: menuData[tab] is an inherited function, which has no
\* filter; or, in the catalog view, a tab button of the key '' (key[0] is undefined).
RenderThrows ==
  \/ Get(menuData, tab).kind = "inherited"
  \/ /\ ~loading
     /\ ~Truthy(error)
     /\ \E i \in 1..Len(menuData) : menuData[i].key = <<>>

\* What the component renders.
View ==
  IF RenderThrows THEN "Crash"
  ELSE IF loading THEN "Loading"
  ELSE IF Truthy(error) THEN "Error"
  ELSE "Ready"

\* ----------------------------------------------------------------- Init

Init ==
  /\ pc = "mount"
  /\ requestedTab \in RequestedTabs
  /\ fetchCount = 0
  /\ response = [state |-> "pending", status |-> 0]
  /\ body = "pending"
  /\ products = [kind |-> "array", items |-> <<>>]
  /\ loading = TRUE
  /\ error = Null
  /\ menuData = <<>>
  /\ tab = Entradas
  /\ query = <<>>
  /\ cart = <<>>
  /\ toastError = 0
  /\ toastSuccess = 0
  /\ modal = <<>>
  /\ clicks = 0

\* --------------------------------------------------------------- loader

\* catch that notifies but leaves the error state unset.
catchForgetsError(message) ==
  /\ error' = error
  /\ toastError' = toastError + 1

\* catch (e): setError(e.message) and the failure notification.
catch(message) ==
  /\ error' = message
  /\ toastError' = toastError + 1

\* A loader without its finally block.
finallyForgotten == loading' = loading

\* finally: setLoading(false).
finally == loading' = FALSE

\* The mount effect calls fetchProducts, which runs up to the await of fetch.
Mount ==
  /\ pc = "mount"
  /\ loading' = TRUE
  /\ fetchCount' = fetchCount + 1
  /\ pc' = "awaitFetch"
  /\ UNCHANGED <<requestedTab, response, body, products, error, menuData, tab, query,
                 collaborators>>

\* fetch rejects (no connection): catch, finally.
FetchRejects ==
  /\ pc = "awaitFetch"
  /\ response' = [state |-> "rejected", status |-> 0]
  /\ catch(FailedToFetch)
  /\ finally
  /\ pc' = "done"
  /\ UNCHANGED <<requestedTab, fetchCount, body, products, menuData, tab, query,
                 cart, toastSuccess, modal, clicks>>

\* fetch resolves with a response: a status that is not OK throws; an OK one goes
\* on to the await of response.json().
FetchResolves(status) ==
  /\ pc = "awaitFetch"
  /\ response' = [state |-> "resolved", status |-> status]
  /\ IF ~IsOk(status)
     THEN /\ catch(HttpErrorPrefix \o NumberToString(status))
          /\ finally
          /\ pc' = "done"
          /\ UNCHANGED toastSuccess
     ELSE /\ pc' = "awaitJson"
          /\ UNCHANGED <<loading, error, toastError, toastSuccess>>
  /\ UNCHANGED <<requestedTab, fetchCount, body, products, menuData, tab, query,
                 cart, modal, clicks>>

\* response.json() rejects (the body is no JSON): catch, finally.
JsonRejects ==
  /\ pc = "awaitJson"
  /\ body' = "malformed"
  /\ catch(UnexpectedToken)
  /\ finally
  /\ pc' = "done"
  /\ UNCHANGED <<requestedTab, fetchCount, response, products, menuData, tab, query,
                 cart, toastSuccess, modal, clicks>>

\* response.json() resolves with data: setProducts, the grouping, setMenuData and
\* the initial tab; a throw of the grouping goes to catch; finally.
JsonResolves(data) ==
  /\ pc = "awaitJson"
  /\ body' = "parsed"
  /\ products' = data
  /\ LET menu == organizedMenu(data)
     IN IF menu.threw
        THEN /\ catch(menu.message)
             /\ UNCHANGED <<menuData, tab>>
        ELSE /\ menuData' = menu.value
             /\ tab' = initialTab(menu.value, requestedTab)
             /\ UNCHANGED <<error, toastError>>
  /\ finally
  /\ pc' = "done"
  /\ UNCHANGED <<requestedTab, fetchCount, response, query, cart, toastSuccess, modal,
                 clicks>>

\* ---------------------------------------------------------------- user
\* The tab buttons, the search field and the cards exist in the catalog view only.

\* A tab click that starts the mount effect again (an effect depending on tab).
TabClickRefetches(key) ==
  /\ View = "Ready"
  /\ \E i \in 1..Len(menuData) : menuData[i].key = key
  /\ tab' = key
  /\ query' = <<>>
  /\ pc' = "mount"
  /\ UNCHANGED <<requestedTab, fetchCount, response, body, products, loading, error,
                 menuData, collaborators>>

\* A tab click that keeps the search text.
TabClickKeepsQuery(key) ==
  /\ View = "Ready"
  /\ \E i \in 1..Len(menuData) : menuData[i].key = key
  /\ tab' = key
  /\ UNCHANGED <<loader, products, loading, error, menuData, query, collaborators>>

\* A tab button's onClick.
TabClick(key) ==
  /\ View = "Ready"
  /\ \E i \in 1..Len(menuData) : menuData[i].key = key
  /\ tab' = key
  /\ query' = <<>>
  /\ UNCHANGED <<loader, products, loading, error, menuData, collaborators>>

\* The search field's onChange.
QueryChange(value) ==
  /\ View = "Ready"
  /\ query' = value
  /\ UNCHANGED <<loader, products, loading, error, menuData, tab, collaborators>>

\* handleAddToCart without the return after the error notification.
handleAddToCartFallsThrough(item) ==
  /\ toastError' = toastError + (IF ~Truthy(item.id) THEN 1 ELSE 0)
  /\ cart' = Append(cart, item)
  /\ toastSuccess' = toastSuccess + 1

handleAddToCart(item) ==
  IF ~Truthy(item.id)
  THEN /\ toastError' = toastError + 1
       /\ UNCHANGED <<cart, toastSuccess>>
  ELSE /\ cart' = Append(cart, item)
       /\ toastSuccess' = toastSuccess + 1
       /\ UNCHANGED toastError

\* An add button that is never disabled.
AddEnabledAlways(item) == TRUE

\* The add button of a card is disabled for an item that is not available.
AddEnabled(item) == item.available

\* A click on the add button of the i-th visible card.
AddClick(i) ==
  /\ View = "Ready"
  /\ clicks < MaxClicks
  /\ i \in 1..Len(filteredItems)
  /\ AddEnabled(filteredItems[i])
  /\ handleAddToCart(filteredItems[i])
  /\ clicks' = clicks + 1
  /\ UNCHANGED <<loader, state, modal>>

\* A click on the i-th visible card or on its "Ver" button, or Enter on the card.
CardClick(i) ==
  /\ View = "Ready"
  /\ clicks < MaxClicks
  /\ i \in 1..Len(filteredItems)
  /\ modal' = <<filteredItems[i]>>
  /\ clicks' = clicks + 1
  /\ UNCHANGED <<loader, state, cart, toastError, toastSuccess>>

\* The keys of the tab buttons rendered: Object.keys(menuData).
TabKeys == {menuData[i].key : i \in 1..Len(menuData)}

Next ==
  \/ Mount
  \/ FetchRejects
  \/ \E status \in Statuses : FetchResolves(status)
  \/ JsonRejects
  \/ \E data \in Bodies : JsonResolves(data)
  \/ \E key \in TabKeys : TabClick(key)
  \/ \E value \in Queries : QueryChange(value)
  \/ \E i \in 1..Len(currentCategoryItems) : AddClick(i)
  \/ \E i \in 1..Len(currentCategoryItems) : CardClick(i)

Spec == Init /\ [][Next]_vars

\* The continuation of the await of response.json().
JsonSettles == JsonRejects \/ \E data \in Bodies : JsonResolves(data)

\* The effect runs once the component is mounted, and the continuation of an
\* await runs once its promise settles; the body of an OK response is taken to
\* arrive or fail.  Nothing makes the fetch itself settle: it has no timeout.
FairSpec == Spec /\ WF_vars(Mount) /\ WF_vars(JsonSettles)

\* --------------------------------------------------------------- claims

\* The fetch resolved with a response whose status is outside 200..299.
NotOkResponse ==
  response.state = "resolved" /\ ~(response.status >= 200 /\ response.status <= 299)

\* The load failed for one of the three causes of C3.
LoadFailed == response.state = "rejected" \/ NotOkResponse \/ body = "malformed"

\* C1: once the view has left Loading (loading = false), no step sets loading back
\* to true, changes the error state (Ready into Error or Error into Ready),
\* changes what is rendered or calls fetch again; fetch is called at most once.
C1_StatusIsTerminal ==
  [][/\ fetchCount' <= 1
     /\ ~loading => /\ ~loading'
                    /\ error' = error
                    /\ View' = View
                    /\ fetchCount' = fetchCount]_vars

\* C1 witness: the catalog view after tab clicks, query edits, add-to-cart and
\* card clicks.
C1_Witness ==
  /\ View = "Ready"
  /\ clicks = MaxClicks
  /\ cart # <<>>
  /\ modal # <<>>
  /\ query # <<>>
  /\ tab # initialTab(menuData, requestedTab)

C3_FailureIsUniform ==
  (pc = "done" /\ LoadFailed) =>
    /\ error # Null
    /\ Truthy(error)
    /\ NotOkResponse => includes(error, NumberToString(response.status))
    /\ toastError = 1
    /\ toastSuccess = 0
    /\ View = "Error"

\* C3 witness: the loader has ended on a response with status 404.
C3_Witness ==
  /\ pc = "done"
  /\ response = [state |-> "resolved", status |-> 404]
  /\ View = "Error"

\* C4: an add-to-cart click on an item whose id is absent or empty calls neither
\* addItem nor toast.success, calls toast.error once and leaves products,
\* menuData, tab and query as they were.
C4_NoIdNoMutation ==
  [][\A i \in 1..Len(currentCategoryItems) :
       (AddClick(i) /\ ~Truthy(filteredItems[i].id)) =>
         /\ cart' = cart
         /\ toastSuccess' = toastSuccess
         /\ toastError' = toastError + 1
         /\ UNCHANGED <<products, menuData, tab, query>>]_vars

\* C4 witness: a catalog that loaded without error, in which an add-to-cart click
\* has raised an error notification.
C4_Witness ==
  /\ View = "Ready"
  /\ toastError = 1
  /\ clicks >= 1
  /\ \E i \in 1..Len(filteredItems) :
       ~Truthy(filteredItems[i].id) /\ filteredItems[i].available

\* C5: no item whose availability flag is false is ever passed to addItem.
C5_UnavailableNeverAdded == \A i \in 1..Len(cart) : cart[i].available

\* C5 witness: something was added while a card of an unavailable item is shown.
C5_Witness ==
  /\ View = "Ready"
  /\ cart # <<>>
  /\ \E i \in 1..Len(filteredItems) : ~filteredItems[i].available

\* C6: a tab click, on the active tab too, selects the clicked key and empties the
\* query; a query edit leaves the selected tab as it was.
C6_TabClickResetsQuery ==
  [][/\ \A key \in TabKeys : TabClick(key) => (tab' = key /\ query' = <<>>)
     /\ \A value \in Queries : QueryChange(value) => (tab' = tab /\ query' = value)]_vars

\* C6 witness: a tab other than the initially selected one is active and the
\* query is empty.
C6_Witness ==
  /\ View = "Ready"
  /\ tab # initialTab(menuData, requestedTab)
  /\ query = <<>>
  /\ Len(menuData) >= 2

\* The category key C7 states for a product: 'outros' for a category that is
\* absent or blank, else the category lowercased and without spaces.
Blank(category) == ~Truthy(category) \/ stripSpaces(category) = <<>>
ClaimedKey(product) ==
  IF Blank(product.category) THEN Outros
  ELSE stripSpaces(toLowerCase(product.category))

\* The bucket C7 states for a key: the items of the products of that key, in
\* source order.
ClaimedBucket(list, key) ==
  LET sel == SelectSeq(list, LAMBDA p : ClaimedKey(p) = key)
  IN [n \in 1..Len(sel) |-> formattedItem(sel[n])]

\* C7: for any fetched list (here: of products that have a price), the grouping
\* yields an index in which every product is in exactly one bucket, the one of its
\* lowercased, space-stripped category or 'outros' for an absent or blank
\* category, and every bucket keeps source order.
C7_GroupingPartitions ==
  (/\ pc = "done"
   /\ body = "parsed"
   /\ products.kind = "array"
   /\ \A j \in 1..Len(products.items) : products.items[j].price.type = "number") =>
    /\ error = Null
    /\ \A j \in 1..Len(products.items) : HasOwn(menuData, ClaimedKey(products.items[j]))
    /\ \A i, k \in 1..Len(menuData) : menuData[i].key = menuData[k].key => i = k
    /\ \A i \in 1..Len(menuData) :
         menuData[i].value = ClaimedBucket(products.items, menuData[i].key)

\* The initial tab C8 states: the URL's tab if it is a key of the index, else the
\* first key in insertion order, else 'entradas' for an empty index.
ClaimedInitialTab(menu, requested) ==
  IF HasOwn(menu, requested) THEN requested
  ELSE IF menu # <<>> THEN menu[1].key
  ELSE Entradas

\* No key of the index is the empty string (no product has a category of spaces
\* only, the input C7 fails on).
NoBlankKey(menu) == \A i \in 1..Len(menu) : menu[i].key # <<>>

\* C8: the step that ends a successful load (here: one whose index has no empty
\* key) selects the tab by that precedence, and after the load only a tab click
\* changes the tab.
C8_InitialTabPrecedence ==
  [][/\ (pc = "awaitJson" /\ pc' = "done" /\ error' = Null /\ NoBlankKey(menuData')) =>
          tab' = ClaimedInitialTab(menuData', requestedTab)
     /\ (pc = "done" /\ tab' # tab) => \E key \in TabKeys : TabClick(key)]_vars

\* The bucket of the active tab.
ActiveBucket == IF HasOwn(menuData, tab) THEN OwnValue(menuData, tab) ELSE <<>>

\* text is present and contains q, ignoring case.
ClaimContains(text, q) ==
  text # Undefined /\ includes(toLowerCase(text), toLowerCase(q))

\* C9 as stated: the visible items are the items of the active tab's bucket, in
\* order, whose title contains the query or whose description contains the query,
\* ignoring case.
C9_TitleOrDescription ==
  View = "Ready" =>
    filteredItems =
      SelectSeq(ActiveBucket,
                LAMBDA it : ClaimContains(it.title, query) \/ ClaimContains(it.desc, query))

\* title + ' ' + desc, an absent one reading as "undefined".
JoinedText(it) == StringOf(it.title) \o <<" ">> \o StringOf(it.desc)

\* C9 as amended: the visible items are the items of the active tab's bucket, in
\* order, for which title + ' ' + desc, lowercased, contains the lowercased
\* query; an empty query shows the whole bucket.
C9_JoinedTextContains ==
  View = "Ready" =>
    /\ filteredItems =
         SelectSeq(ActiveBucket,
                   LAMBDA it : includes(toLowerCase(JoinedText(it)), toLowerCase(query)))
    /\ query = <<>> => filteredItems = ActiveBucket

\* C9 witness: a query in upper case that shows one item of a bucket of two.
C9_Witness ==
  /\ View = "Ready"
  /\ query = <<"P", "A">>
  /\ Len(ActiveBucket) = 2
  /\ Len(filteredItems) = 1

\* C10: whenever loading is false (here: and the index has no empty key), either
\* the load succeeded, the index is the grouping of the fetched list and the tab
\* is one of its keys ('entradas' for an empty index), or the load failed, the
\* index is empty and the tab is the initial one.
C10_AllOrNothing ==
  (~loading /\ NoBlankKey(menuData)) =>
    \/ /\ error = Null
       /\ ~organizedMenu(products).threw
       /\ menuData = organizedMenu(products).value
       /\ IF menuData = <<>> THEN tab = Entradas ELSE HasOwn(menuData, tab)
    \/ /\ error # Null
       /\ menuData = <<>>
       /\ tab = Entradas

====
